---- MODULE Spec2Model ----
(***************************************************************************)
(* Behaviour layer of the Patreon landing page.  Two implementations of    *)
(* the same page behaviour are in the repository:                          *)
(*   "app"  - the controller class PatreonLandingApp (src/unnamed/part_000)*)
(*   "flat" - the global functions of src/script.js                        *)
(* A page loads one of them; impl says which.                              *)
(***************************************************************************)
EXTENDS Integers, Sequences, FiniteSets, TLC

NULL == "null"
NoAttr == "no-attr"

\* ------------------------------------------------------------ bounds
\* longest playback position the model follows
MaxVideoTime == 2
\* window.innerHeight of the model's viewport
ViewportHeight == 600
\* the document is 1..MaxPages viewports tall
MaxPages == 2
\* how far elastic scrolling may carry pageYOffset past the last position
OverScroll == 1
\* copyGiftLink calls followed
MaxCopies == 2
\* intersection reports followed per observed element
MaxReports == 2
\* ms between two scroll events of a burst
ScrollGap == 5
\* ms between two overlapping toasts
ToastGap == 1500

\* ------------------------------------------------------------ program constants
ScrollThreshold == 300
PopupWidth == 600
PopupHeight == 400
\* the limit handed to throttle for the scroll handler
ThrottleLimit == 16
\* how long a toast stays before it slides out, and how long sliding out takes
ToastDwell == 3000
ToastExit == 300

\* ------------------------------------------------------------ state
VARIABLES
    \* the page, fixed for a behaviour
    impl,            \* which implementation the page loads
    hasModal,        \* the document holds #videoModal
    hasVideo,        \* the document holds #heroVideo
    hasClipboard,    \* navigator.clipboard exists
    hasScrollButton, \* the document holds .scroll-to-top
    hasProgressBar,  \* the document holds .reading-progress
    scrollHeight,    \* document.documentElement.scrollHeight
    docCards,        \* the reveal-animated cards of the document
    docImages,       \* the img[data-src] elements of the document
    \* loading
    readyState,      \* document.readyState
    dclFired,        \* DOMContentLoaded was dispatched
    scriptRan,       \* the script was executed
    parsed,          \* the cards and images parsed so far
    listeners,       \* registered subscriptions
    registrations,   \* subscription -> listeners registered for it
    readyRuns,       \* times the document-ready step was entered
    observer,        \* the reveal watcher exists (this.observer / observer)
    bodyLoaded,      \* body carries class 'loaded'
    \* video modal
    modalDisplay,    \* #videoModal style.display ("" = stylesheet default, hidden)
    videoPaused,     \* #heroVideo paused
    videoTime,       \* #heroVideo currentTime
    bodyOverflow,    \* document.body.style.overflow
    lastCall,        \* the last of playVideo / closeVideo that was called
    \* scrolling
    pageYOffset,     \* window.pageYOffset
    scrollButtonDisplay, \* .scroll-to-top style.display
    progressWidth,   \* .reading-progress style.width, a percentage
    widthAssigned,   \* the value updateProgressBar last assigned to it
    inThrottle,      \* the throttle window of the scroll handler is open
    throttleTimer,   \* ms left on the timer that closes the window
    windowAge,       \* ms since the throttle window last opened, until it closes
    acceptedOffset,  \* pageYOffset when onScroll last ran, -1 before
    \* watchers
    revealObserved,  \* targets of the reveal watcher
    cardStyle,       \* card -> inline opacity / transform / transition
    revealCount,     \* card -> times the reveal effect was applied
    imgObserved,     \* targets of the lazy-image watcher
    imgSrc,          \* image -> src attribute
    imgClass,        \* image -> class list
    loadCount,       \* image -> times it was loaded
    reports,         \* element -> intersection reports delivered for it
    \* sharing, clipboard, toasts
    copies,          \* the copyGiftLink calls made, in order
    toasts,          \* the toast nodes created, in order
    tempFields,      \* temporary textareas in the document
    clipboard,       \* content of the system clipboard
    \* the last step
    event,           \* the event (or direct call) handled by the last step
    calls,           \* platform calls made while handling it, in order
    thrown           \* an error escaped a handler while handling it

configVars ==
    <<impl, hasModal, hasVideo, hasClipboard, hasScrollButton, hasProgressBar,
      scrollHeight, docCards, docImages>>
loadVars ==
    <<readyState, dclFired, scriptRan, parsed, listeners, registrations, readyRuns,
      observer, bodyLoaded>>
modalVars == <<modalDisplay, videoPaused, videoTime, bodyOverflow, lastCall>>
scrollVars ==
    <<pageYOffset, scrollButtonDisplay, progressWidth, widthAssigned, inThrottle,
      throttleTimer, windowAge, acceptedOffset>>
watchVars ==
    <<revealObserved, cardStyle, revealCount, imgObserved, imgSrc, imgClass,
      loadCount, reports>>
copyVars == <<copies, toasts, tempFields, clipboard>>
stepVars == <<event, calls, thrown>>
vars == <<configVars, loadVars, modalVars, scrollVars, watchVars, copyVars, stepVars>>

Impls == {"app", "flat"}

\* ------------------------------------------------------------ document
\* The elements of the page a pointer event can land on.
Nodes ==
    {"html", "body", "hero", "playBtn", "playIcon", "videoModal", "modalContent",
     "closeBtn", "heroVideo", "oddBtn", "text", "topBtn", "shareTw", "shareFb",
     "shareLine", "shareCtor", "shareStr", "shareOther", "shareNone", "copyBtn",
     "ctaBtn", "ctaLink", "anchorHero", "anchorGone", "anchorHash"}

\* parentNode
Parent(n) ==
    CASE n = "html" -> NULL
      [] n = "body" -> "html"
      [] n = "playIcon" -> "playBtn"
      [] n = "playBtn" -> "hero"
      [] n = "modalContent" -> "videoModal"
      [] n = "closeBtn" -> "modalContent"
      [] n = "heroVideo" -> IF hasModal THEN "modalContent" ELSE "body"
      [] OTHER -> "body"

\* dataset.action (the data-action attribute)
DataAction(n) ==
    CASE n = "playBtn" -> "play-video"
      [] n = "closeBtn" -> "close-video"
      [] n = "topBtn" -> "scroll-to-top"
      [] n \in {"shareTw", "shareFb", "shareLine", "shareCtor", "shareStr",
                "shareOther", "shareNone"} -> "share-gift"
      [] n = "copyBtn" -> "copy-gift-link"
      [] n = "ctaBtn" -> "track-cta"
      [] n = "oddBtn" -> "open-sesame"
      [] OTHER -> NoAttr

\* dataset.platform (the data-platform attribute); undefined when absent
Undefined == "undefined"
DataPlatform(n) ==
    CASE n = "shareTw" -> "twitter"
      [] n = "shareFb" -> "facebook"
      [] n = "shareLine" -> "line"
      [] n = "shareCtor" -> "constructor"
      [] n = "shareStr" -> "toString"
      [] n = "shareOther" -> "myspace"
      [] OTHER -> Undefined

\* the element is in the document
InDocument(n) ==
    CASE n \in {"videoModal", "modalContent", "closeBtn"} -> hasModal
      [] n = "heroVideo" -> hasVideo
      [] n = "topBtn" -> hasScrollButton
      [] OTHER -> TRUE

getElementById(id) == IF InDocument(id) THEN id ELSE NULL

\* the a[href^="#"] elements and their href attributes
Anchors == {"anchorHero", "anchorGone", "anchorHash"}
Href(n) ==
    CASE n = "anchorHero" -> "#hero"
      [] n = "anchorGone" -> "#gone"
      [] n = "anchorHash" -> "#"

\* document.querySelector for an id selector: a bare "#" is not a selector and
\* raises a SyntaxError
Invalid == "invalid"
querySelector(sel) ==
    CASE sel = "#" -> Invalid
      [] sel = "#hero" -> "hero"
      [] OTHER -> NULL

\* Element.closest('[data-action]'): the element itself or its nearest ancestor
\* that carries the attribute
RECURSIVE closest(_)
closest(n) ==
    IF n = NULL THEN NULL
    ELSE IF DataAction(n) # NoAttr THEN n
    ELSE closest(Parent(n))

\* The cards and lazy images, in document order, and their classes.
Cards == <<"card1", "card2">>
Images == <<"img1", "img2">>
CardSet == {Cards[i] : i \in 1..Len(Cards)}
ImageSet == {Images[i] : i \in 1..Len(Images)}
ClassOf(c) == IF c = "card1" THEN "benefit-card" ELSE "pricing-card"

AppRevealClasses == {"benefit-card", "testimonial", "step", "pricing-card", "meaning-item"}
FlatRevealClasses == {"benefit-card", "testimonial", "step"}

\* ------------------------------------------------------------ handler state
\* The mutable state a handler works on, as one record.
World ==
    [readyState |-> readyState, dclFired |-> dclFired, scriptRan |-> scriptRan,
     parsed |-> parsed, listeners |-> listeners, registrations |-> registrations,
     readyRuns |-> readyRuns, observer |-> observer,
     bodyLoaded |-> bodyLoaded,
     display |-> modalDisplay, paused |-> videoPaused, time |-> videoTime,
     overflow |-> bodyOverflow, lastCall |-> lastCall,
     offset |-> pageYOffset, button |-> scrollButtonDisplay,
     width |-> progressWidth, assigned |-> widthAssigned, inThrottle |-> inThrottle,
     throttleTimer |-> throttleTimer, windowAge |-> windowAge,
     acceptedOffset |-> acceptedOffset,
     revealObserved |-> revealObserved, cardStyle |-> cardStyle,
     revealCount |-> revealCount, imgObserved |-> imgObserved, imgSrc |-> imgSrc,
     imgClass |-> imgClass, loadCount |-> loadCount, reports |-> reports,
     copies |-> copies, toasts |-> toasts, tempFields |-> tempFields,
     clipboard |-> clipboard,
     calls |-> <<>>, thrown |-> FALSE]

Commit(w, ev) ==
    /\ readyState' = w.readyState
    /\ dclFired' = w.dclFired
    /\ scriptRan' = w.scriptRan
    /\ parsed' = w.parsed
    /\ listeners' = w.listeners
    /\ registrations' = w.registrations
    /\ readyRuns' = w.readyRuns
    /\ observer' = w.observer
    /\ bodyLoaded' = w.bodyLoaded
    /\ modalDisplay' = w.display
    /\ videoPaused' = w.paused
    /\ videoTime' = w.time
    /\ bodyOverflow' = w.overflow
    /\ lastCall' = w.lastCall
    /\ pageYOffset' = w.offset
    /\ scrollButtonDisplay' = w.button
    /\ progressWidth' = w.width
    /\ widthAssigned' = w.assigned
    /\ inThrottle' = w.inThrottle
    /\ throttleTimer' = w.throttleTimer
    /\ windowAge' = w.windowAge
    /\ acceptedOffset' = w.acceptedOffset
    /\ revealObserved' = w.revealObserved
    /\ cardStyle' = w.cardStyle
    /\ revealCount' = w.revealCount
    /\ imgObserved' = w.imgObserved
    /\ imgSrc' = w.imgSrc
    /\ imgClass' = w.imgClass
    /\ loadCount' = w.loadCount
    /\ reports' = w.reports
    /\ copies' = w.copies
    /\ toasts' = w.toasts
    /\ tempFields' = w.tempFields
    /\ clipboard' = w.clipboard
    /\ calls' = w.calls
    /\ thrown' = w.thrown
    /\ event' = ev
    /\ UNCHANGED configVars

Event(kind, what, flag) == [kind |-> kind, what |-> what, flag |-> flag]

\* a platform call, as the handler made it
Call(op, arg) == [op |-> op, arg |-> arg, width |-> 0, height |-> 0]
Did(w, op) == [w EXCEPT !.calls = Append(@, Call(op, ""))]
DidArg(w, op, arg) == [w EXCEPT !.calls = Append(@, Call(op, arg))]
Throw(w) == [w EXCEPT !.thrown = TRUE]
Ops(cs) == {cs[i].op : i \in 1..Len(cs)}

\* HTMLMediaElement.play(): playback starts, or the returned promise rejects
\* (autoplay policy, no source) and the element stays paused
MediaPlay(w, ok) ==
    IF ok THEN [Did(w, "video.play") EXCEPT !.paused = FALSE]
    ELSE Did(w, "video.play")

MediaPause(w) == [Did(w, "video.pause") EXCEPT !.paused = TRUE]

\* ------------------------------------------------------------ video modal
\* playVideo as a toggle: a second call hides the modal again
TogglePlayVideo(w0, ok) ==
    LET w == [w0 EXCEPT !.lastCall = "play"]
    IN  IF getElementById("videoModal") # NULL /\ getElementById("heroVideo") # NULL
        THEN [MediaPlay(w, ok) EXCEPT
                 !.display = IF w0.display = "block" THEN "none" ELSE "block",
                 !.overflow = "hidden"]
        ELSE w

AppPlayVideo(w0, ok) ==
    LET w == [w0 EXCEPT !.lastCall = "play"]
        modal == getElementById("videoModal")
        video == getElementById("heroVideo")
    IN  IF modal # NULL /\ video # NULL
        THEN LET w1 == [w EXCEPT !.display = "block"]
                 w2 == MediaPlay(w1, ok)
                 w3 == IF ok THEN w2 ELSE Did(w2, "console.warn")
             IN  [w3 EXCEPT !.overflow = "hidden"]
        ELSE w

\* closeVideo without its last statement: the overflow style is left as it is
CloseKeepsOverflow(w0) ==
    LET w == [w0 EXCEPT !.lastCall = "close"]
    IN  IF getElementById("videoModal") # NULL /\ getElementById("heroVideo") # NULL
        THEN [MediaPause([w EXCEPT !.display = "none"]) EXCEPT !.time = 0]
        ELSE w

AppCloseVideo(w0) ==
    LET w == [w0 EXCEPT !.lastCall = "close"]
        modal == getElementById("videoModal")
        video == getElementById("heroVideo")
    IN  IF modal # NULL /\ video # NULL
        THEN LET w1 == [w EXCEPT !.display = "none"]
                 w2 == MediaPause(w1)
                 w3 == [w2 EXCEPT !.time = 0]
             IN  [w3 EXCEPT !.overflow = ""]
        ELSE w

\* script.js dereferences both lookups unguarded: a missing element is a
\* TypeError at the first use, and the statements after it do not run.
FlatPlayVideo(w0, ok) ==
    LET w == [w0 EXCEPT !.lastCall = "play"]
        modal == getElementById("videoModal")
        video == getElementById("heroVideo")
    IN  IF modal = NULL THEN Throw(w)
        ELSE LET w1 == [w EXCEPT !.display = "block"]
             IN  IF video = NULL THEN Throw(w1)
                 ELSE IF ok THEN MediaPlay(w1, ok)
                 ELSE Did(MediaPlay(w1, ok), "unhandledrejection")

FlatCloseVideo(w0) ==
    LET w == [w0 EXCEPT !.lastCall = "close"]
        modal == getElementById("videoModal")
        video == getElementById("heroVideo")
    IN  IF modal = NULL THEN Throw(w)
        ELSE LET w1 == [w EXCEPT !.display = "none"]
             IN  IF video = NULL THEN Throw(w1)
                 ELSE [MediaPause(w1) EXCEPT !.time = 0]

playVideo(w, ok) == IF impl = "app" THEN AppPlayVideo(w, ok) ELSE FlatPlayVideo(w, ok)
closeVideo(w) == IF impl = "app" THEN AppCloseVideo(w) ELSE FlatCloseVideo(w)

\* ------------------------------------------------------------ scrolling
\* A JavaScript number, as far as the progress computation needs one: a ratio
\* num/den (den > 0), +Infinity or NaN.
Num(n, d) == [kind |-> "num", num |-> n, den |-> d]
NaN == [kind |-> "nan", num |-> 0, den |-> 1]
Infinity == [kind |-> "inf", num |-> 0, den |-> 1]
Unset == [kind |-> "unset", num |-> 0, den |-> 1]

\* a / b for integers a >= 0, b >= 0
JSDivide(a, b) ==
    IF b = 0 THEN (IF a = 0 THEN NaN ELSE Infinity) ELSE Num(a, b)

\* x * k for an integer k > 0
JSTimes(x, k) == IF x.kind = "num" THEN Num(x.num * k, x.den) ELSE x

\* Math.min(x, m) for an integer m
MathMin(x, m) ==
    CASE x.kind = "nan" -> NaN
      [] x.kind = "inf" -> Num(m, 1)
      [] OTHER -> IF x.num > m * x.den THEN Num(m, 1) ELSE x

\* style.width = `${x}%`: the style keeps its value when the text is no length
SetWidth(old, x) == IF x.kind = "num" THEN x ELSE old

SameNumber(x, y) ==
    /\ x.kind = y.kind
    /\ x.kind = "num" => x.num * y.den = y.num * x.den

\* the control shown from the threshold on
ShowAtThreshold(w) ==
    IF hasScrollButton
    THEN [w EXCEPT !.button = IF w.offset >= ScrollThreshold THEN "block" ELSE "none"]
    ELSE w

updateScrollButton(w) ==
    IF hasScrollButton
    THEN [w EXCEPT !.button = IF w.offset > ScrollThreshold THEN "block" ELSE "none"]
    ELSE w

updateProgressBar(w) ==
    IF hasProgressBar
    THEN LET scrolled == JSTimes(JSDivide(w.offset, scrollHeight - ViewportHeight), 100)
             value == MathMin(scrolled, 100)
         IN  [w EXCEPT !.assigned = value, !.width = SetWidth(@, value)]
    ELSE w

onScroll(w) == updateProgressBar(updateScrollButton(w))

\* the function throttle() returns, for func = onScroll
ThrottledOnScroll(w) ==
    IF ~w.inThrottle
    THEN [onScroll(w) EXCEPT !.inThrottle = TRUE, !.throttleTimer = ThrottleLimit,
                             !.windowAge = 0, !.acceptedOffset = w.offset]
    ELSE w

\* the scroll listener of script.js
FlatScrollListener(w) ==
    IF hasScrollButton
    THEN [w EXCEPT !.button = IF w.offset > ScrollThreshold THEN "block" ELSE "none"]
    ELSE w

scrollToTop(w) == DidArg(w, "window.scrollTo", "top:0")

\* ------------------------------------------------------------ sharing
GiftUrl == "https://www.patreon.com/MesmerizingIndianAILookbook/gift"
SharePlatforms == {"twitter", "facebook", "line"}

\* the share URL of a platform; {text} and {url} stand for the percent-encoded
\* promotional text and gift URL
ShareUrl(platform) ==
    CASE platform = "twitter" -> "https://twitter.com/intent/tweet?text={text}&url={url}"
      [] platform = "facebook" -> "https://www.facebook.com/sharer/sharer.php?u={url}"
      [] platform = "line" -> "https://social-plugins.line.me/lineit/share?url={url}&text={text}"

\* property names every object literal inherits from Object.prototype
ObjectPrototypeKeys ==
    {"constructor", "toString", "toLocaleString", "valueOf", "hasOwnProperty",
     "isPrototypeOf", "propertyIsEnumerable", "__proto__"}

\* shareUrls[platform], a property read on an object literal: an own property,
\* else what the prototype chain holds under that name, else undefined
ShareUrlsGet(platform) ==
    IF platform \in SharePlatforms THEN ShareUrl(platform)
    ELSE IF platform \in ObjectPrototypeKeys THEN "[object-prototype-member]"
    ELSE Undefined

WindowOpen(w, url) ==
    [w EXCEPT !.calls = Append(@, [op |-> "window.open", arg |-> url,
                                   width |-> PopupWidth, height |-> PopupHeight])]

AppShareGift(w, platform) ==
    IF ShareUrlsGet(platform) # Undefined
    THEN WindowOpen(w, ShareUrlsGet(platform))
    ELSE w

FlatShareGift(w, platform) ==
    LET shareUrl == IF platform \in SharePlatforms THEN ShareUrl(platform) ELSE ""
    IN  IF shareUrl # "" THEN WindowOpen(w, shareUrl) ELSE w

shareGift(w, platform) ==
    IF impl = "app" THEN AppShareGift(w, platform) ELSE FlatShareGift(w, platform)

\* ------------------------------------------------------------ toasts
\* timer: ms left on its pending setTimeout; age: ms since it was appended
Toast(type, phase, by) ==
    [type |-> type, phase |-> phase, by |-> by, timer |-> ToastDwell, age |-> 0]

\* the node is appended off-screen and slides in on the next animation frame
showNotification(w, type, by) ==
    [w EXCEPT !.toasts = Append(@, Toast(type, "offscreen", by))]

\* the node is appended in place, with the slideIn animation
showCopyNotification(w, by) ==
    [w EXCEPT !.toasts = Append(@, Toast("success", "onscreen", by))]

\* ------------------------------------------------------------ clipboard
\* document.execCommand('copy') returns true, returns false or throws
ExecResults == {"true", "false", "throw"}

Copy(pc, clip, fallback) == [pc |-> pc, clip |-> clip, fallback |-> fallback]

\* the temporary field is appended, selected and copied from
ExecCopy(w, exec) ==
    LET w1 == [w EXCEPT !.tempFields = @ + 1]
        w2 == Did(w1, "textarea.select")
        w3 == Did(w2, "document.execCommand")
    IN  IF exec = "true" THEN [w3 EXCEPT !.clipboard = GiftUrl] ELSE w3

\* the field removed after the try statement instead of in its finally clause:
\* the rethrown error skips the removal
RemoveAfterTry(w, exec) ==
    IF exec = "throw" THEN ExecCopy(w, exec)
    ELSE [ExecCopy(w, exec) EXCEPT !.tempFields = @ - 1]

\* fallbackCopyText: throws iff execCommand threw; the finally clause removes
\* the field on both paths
AppFallbackCopyText(w, exec) == [ExecCopy(w, exec) EXCEPT !.tempFields = @ - 1]

AppCopyGiftLink(w, exec) ==
    LET id == Len(w.copies) + 1
    IN  IF hasClipboard
        THEN [DidArg(w, "clipboard.writeText", GiftUrl)
                EXCEPT !.copies = Append(@, Copy("awaiting", "pending", "none"))]
        ELSE LET w1 == AppFallbackCopyText(w, exec)
                 w2 == [w1 EXCEPT !.copies = Append(@, Copy("done", "none", exec))]
             IN  IF exec = "throw"
                 THEN showNotification(Did(w2, "console.error"), "error", id)
                 ELSE showNotification(w2, "success", id)

\* the awaited clipboard write settles
AppClipboardSettle(w, id, ok) ==
    IF ok
    THEN showNotification(
             [w EXCEPT !.copies[id] = Copy("done", "resolved", "none"),
                       !.clipboard = GiftUrl], "success", id)
    ELSE showNotification(
             Did([w EXCEPT !.copies[id] = Copy("done", "rejected", "none")],
                 "console.error"), "error", id)

\* fallbackCopyTextToClipboard
FlatFallbackCopy(w, exec, id) ==
    LET w1 == Did(ExecCopy(w, exec), "textarea.focus")
        w2 == IF exec = "throw" THEN Did(w1, "console.error")
              ELSE showCopyNotification(w1, id)
    IN  [w2 EXCEPT !.tempFields = @ - 1]

FlatCopyGiftLink(w, exec) ==
    LET id == Len(w.copies) + 1
    IN  IF hasClipboard
        THEN [DidArg(w, "clipboard.writeText", GiftUrl)
                EXCEPT !.copies = Append(@, Copy("awaiting", "pending", "none"))]
        ELSE FlatFallbackCopy(
                 [w EXCEPT !.copies = Append(@, Copy("done", "none", exec))], exec, id)

\* the .then / .catch continuations of the clipboard write
FlatClipboardSettle(w, id, ok, exec) ==
    IF ok
    THEN showCopyNotification(
             [w EXCEPT !.copies[id] = Copy("done", "resolved", "none"),
                       !.clipboard = GiftUrl], id)
    ELSE FlatFallbackCopy(
             [w EXCEPT !.copies[id] = Copy("done", "rejected", exec)], exec, id)

copyGiftLink(w, exec) ==
    IF impl = "app" THEN AppCopyGiftLink(w, exec) ELSE FlatCopyGiftLink(w, exec)

trackCTAClick(w) == DidArg(w, "console.log", "CTA clicked")

\* ------------------------------------------------------------ watchers
Hidden == [opacity |-> "0", transform |-> "translateY(30px)",
           transition |-> "opacity 0.6s ease, transform 0.6s ease"]
NoStyle == [opacity |-> "", transform |-> "", transition |-> ""]

animateElement(w, el) ==
    [w EXCEPT !.cardStyle[el].opacity = "1",
              !.cardStyle[el].transform = "translateY(0)",
              !.revealCount[el] = @ + 1]

\* the forEach of initializeAnimations from the i-th card on; observe() on a
\* watcher that does not exist yet is a TypeError that ends the loop
RECURSIVE AppAnimateFrom(_, _)
AppAnimateFrom(w, i) ==
    IF i > Len(Cards) THEN w
    ELSE LET c == Cards[i]
         IN  IF c \notin w.parsed \/ ClassOf(c) \notin AppRevealClasses
             THEN AppAnimateFrom(w, i + 1)
             ELSE LET w1 == [w EXCEPT !.cardStyle[c] = Hidden]
                  IN  IF ~w1.observer THEN Throw(w1)
                      ELSE AppAnimateFrom(
                               [w1 EXCEPT !.revealObserved = @ \cup {c}], i + 1)

initializeAnimations(w) == AppAnimateFrom(w, 1)

\* the reveal watcher's callback, for one entry
AppRevealCallback(w, el, isIntersecting) ==
    IF isIntersecting
    THEN [animateElement(w, el) EXCEPT !.revealObserved = @ \ {el}]
    ELSE w

FlatRevealCallback(w, el, isIntersecting) ==
    IF isIntersecting THEN animateElement(w, el) ELSE w

DataSrc(img) == "deferred:" \o img

loadImage(w, img) ==
    [w EXCEPT !.imgSrc[img] = DataSrc(img),
              !.imgClass[img] = (@ \ {"lazy"}) \cup {"loaded"},
              !.loadCount[img] = @ + 1]

\* the lazy-image watcher's callback, for one entry
AppImageCallback(w, img, isIntersecting) ==
    IF isIntersecting
    THEN [loadImage(w, img) EXCEPT !.imgObserved = @ \ {img}]
    ELSE w

FlatImageCallback(w, img, isIntersecting) ==
    IF isIntersecting
    THEN [w EXCEPT !.imgSrc[img] = DataSrc(img),
                   !.imgClass[img] = @ \ {"lazy"},
                   !.loadCount[img] = @ + 1,
                   !.imgObserved = @ \ {img}]
    ELSE w

\* querySelectorAll('img[data-src]').forEach(observe)
setupLazyLoading(w) == [w EXCEPT !.imgObserved = @ \cup (w.parsed \cap ImageSet)]

\* ------------------------------------------------------------ start-up
AppSubscriptions == {"load", "scroll", "click", "windowclick", "keydown"}
Subscriptions == AppSubscriptions \cup {"DOMContentLoaded", "anchor", "cta"}

\* addEventListener, once for each of the names
addEventListener(w, names) ==
    [w EXCEPT !.listeners = @ \cup names,
              !.registrations = [s \in Subscriptions |->
                                    IF s \in names THEN @[s] + 1 ELSE @[s]]]

setupSmoothScrolling(w) == addEventListener(w, {"anchor"})

onDOMReady(w) ==
    LET w0 == [w EXCEPT !.readyRuns = @ + 1]
        w1 == initializeAnimations(setupSmoothScrolling(w0))
    IN  IF w1.thrown THEN w1 ELSE [w1 EXCEPT !.bodyLoaded = TRUE]

bindEvents(w) ==
    LET w1 == IF w.readyState = "loading"
              THEN addEventListener(w, {"DOMContentLoaded"})
              ELSE onDOMReady(w)
    IN  IF w1.thrown THEN w1
        ELSE addEventListener(w1, AppSubscriptions)

setupIntersectionObserver(w) == [w EXCEPT !.observer = TRUE]

setupAnalytics(w) == addEventListener(w, {"cta"})

\* new PatreonLandingApp(): init() up to the first error
AppConstruct(w) ==
    LET w1 == bindEvents(w)
    IN  IF w1.thrown THEN w1
        ELSE setupAnalytics(setupLazyLoading(setupIntersectionObserver(w1)))

\* the controller object exists: its constructor returned
AppAlive == scriptRan /\ "click" \in listeners

\* script.js, top to bottom
FlatScript(w) ==
    LET w1 == addEventListener(w, {"windowclick", "anchor", "DOMContentLoaded", "cta",
                                   "scroll", "load"})
        w2 == addEventListener(w1, {"DOMContentLoaded"})
    IN  setupLazyLoading([w2 EXCEPT !.observer = TRUE])

\* the DOMContentLoaded listeners of script.js
RECURSIVE FlatAnimateFrom(_, _)
FlatAnimateFrom(w, i) ==
    IF i > Len(Cards) THEN w
    ELSE LET c == Cards[i]
         IN  IF c \notin w.parsed \/ ClassOf(c) \notin FlatRevealClasses
             THEN FlatAnimateFrom(w, i + 1)
             ELSE FlatAnimateFrom(
                      [w EXCEPT !.cardStyle[c] = Hidden,
                                !.revealObserved = @ \cup {c}], i + 1)

FlatDOMContentLoaded(w) ==
    [FlatAnimateFrom(w, 1) EXCEPT !.bodyLoaded = TRUE, !.readyRuns = @ + 1]

\* ------------------------------------------------------------ handlers
\* the click listener setupSmoothScrolling puts on an anchor
AppAnchorClick(w, n) ==
    LET w1 == Did(w, "preventDefault")
        target == querySelector(Href(n))
    IN  IF target = Invalid THEN Throw(w1)
        ELSE IF target # NULL THEN DidArg(w1, "scrollIntoView", target)
        ELSE w1

\* the click listener script.js puts on an anchor: the lookup is not tested
FlatAnchorClick(w, n) ==
    LET w1 == Did(w, "preventDefault")
        target == querySelector(Href(n))
    IN  IF target = Invalid \/ target = NULL THEN Throw(w1)
        ELSE DidArg(w1, "scrollIntoView", target)

\* the case labels of handleClicks
KnownActions ==
    {"play-video", "close-video", "scroll-to-top", "share-gift", "copy-gift-link",
     "track-cta"}

\* handleClicks with a default case that logs the identifier it does not know
WarnUnknownAction(w, n, ok, exec) ==
    LET target == closest(n)
        action == DataAction(target)
    IN  IF target = NULL THEN w
        ELSE CASE action = "play-video" -> AppPlayVideo(w, ok)
               [] action = "close-video" -> AppCloseVideo(w)
               [] action = "scroll-to-top" -> scrollToTop(w)
               [] action = "share-gift" -> AppShareGift(w, DataPlatform(target))
               [] action = "copy-gift-link" -> AppCopyGiftLink(w, exec)
               [] action = "track-cta" -> trackCTAClick(w)
               [] OTHER -> Did(w, "console.warn")

handleClicks(w, n, ok, exec) ==
    LET target == closest(n)
        action == DataAction(target)
    IN  IF target = NULL THEN w
        ELSE CASE action = "play-video" -> AppPlayVideo(w, ok)
               [] action = "close-video" -> AppCloseVideo(w)
               [] action = "scroll-to-top" -> scrollToTop(w)
               [] action = "share-gift" -> AppShareGift(w, DataPlatform(target))
               [] action = "copy-gift-link" -> AppCopyGiftLink(w, exec)
               [] action = "track-cta" -> trackCTAClick(w)
               [] OTHER -> w

\* the element n is a or lies inside a
RECURSIVE Contains(_, _)
Contains(a, n) ==
    IF n = NULL THEN FALSE
    ELSE IF n = a THEN TRUE
    ELSE Contains(a, Parent(n))

\* a backdrop test that also accepts clicks inside the modal
ContainsModalClick(w, n) ==
    LET modal == getElementById("videoModal")
    IN  IF modal # NULL /\ Contains(modal, n) THEN AppCloseVideo(w) ELSE w

handleModalClick(w, n) ==
    LET modal == getElementById("videoModal")
    IN  IF n = modal THEN AppCloseVideo(w) ELSE w

handleKeyboard(w, key) ==
    IF key = "Escape" THEN AppCloseVideo(w) ELSE w

\* window.onclick of script.js
WindowOnclick(w, n) ==
    LET modal == getElementById("videoModal")
    IN  IF n = modal THEN FlatCloseVideo(w) ELSE w

\* A click is dispatched to the listeners on its path, target first, then
\* document, then window; an error in one listener does not stop the next.
DispatchClick(w, n, ok, exec) ==
    LET w0 == IF "anchor" \in w.listeners /\ n \in Anchors
              THEN (IF impl = "app" THEN AppAnchorClick(w, n) ELSE FlatAnchorClick(w, n))
              ELSE w
        w1 == IF "cta" \in w.listeners /\ n = "ctaLink" THEN trackCTAClick(w0) ELSE w0
        w2 == IF impl = "app" /\ "click" \in w.listeners
              THEN handleClicks(w1, n, ok, exec) ELSE w1
    IN  IF "windowclick" \in w.listeners
        THEN (IF impl = "app" THEN handleModalClick(w2, n) ELSE WindowOnclick(w2, n))
        ELSE w2

DispatchKeyDown(w, key) ==
    IF impl = "app" /\ "keydown" \in w.listeners THEN handleKeyboard(w, key) ELSE w

DispatchScroll(w) ==
    IF "scroll" \in w.listeners
    THEN (IF impl = "app" THEN ThrottledOnScroll(w) ELSE FlatScrollListener(w))
    ELSE w

\* ------------------------------------------------------------ actions
Keys == {"Escape", "Enter", "a"}

\* the offsets a viewport of this document can be scrolled to
ScrollOffsets ==
    LET last == scrollHeight - ViewportHeight
    IN  {s \in {0, ScrollThreshold - 1, ScrollThreshold, ScrollThreshold + 1,
                last, last + OverScroll} : s <= last + OverScroll}

\* the script element is executed
RunScript ==
    /\ ~scriptRan
    /\ LET w == [World EXCEPT !.scriptRan = TRUE]
       IN  Commit(IF impl = "app" THEN AppConstruct(w) ELSE FlatScript(w),
                  Event("script", readyState, FALSE))

\* the parser reaches the end of the document
ParseEnd ==
    /\ readyState = "loading"
    /\ Commit([World EXCEPT !.readyState = "interactive",
                            !.parsed = docCards \cup docImages],
              Event("parsed", "", FALSE))

\* DOMContentLoaded is dispatched
DOMContentLoaded ==
    /\ readyState = "interactive"
    /\ ~dclFired
    /\ LET w == [World EXCEPT !.dclFired = TRUE]
       IN  Commit(IF "DOMContentLoaded" \in listeners
                  THEN (IF impl = "app" THEN onDOMReady(w) ELSE FlatDOMContentLoaded(w))
                  ELSE w,
                  Event("DOMContentLoaded", "", FALSE))

\* a click on node n
Click(n, ok, exec) ==
    /\ InDocument(n)
    /\ (impl = "app" /\ "click" \in listeners /\ DataAction(closest(n)) = "copy-gift-link")
           => Len(copies) < MaxCopies
    /\ Commit(DispatchClick(World, n, ok, exec), Event("click", n, ok))

KeyDown(key) ==
    /\ key \in Keys
    /\ Commit(DispatchKeyDown(World, key), Event("keydown", key, FALSE))

\* playVideo() / closeVideo() called by name (an inline onclick, app.playVideo())
CallPlayVideo(ok) ==
    /\ IF impl = "app" THEN AppAlive ELSE scriptRan
    /\ Commit(playVideo(World, ok), Event("call", "playVideo", ok))

CallCloseVideo ==
    /\ IF impl = "app" THEN AppAlive ELSE scriptRan
    /\ Commit(closeVideo(World), Event("call", "closeVideo", FALSE))

CallShareGift(platform) ==
    /\ IF impl = "app" THEN AppAlive ELSE scriptRan
    /\ Commit(shareGift(World, platform), Event("shareGift", platform, FALSE))

CallCopyGiftLink(exec) ==
    /\ IF impl = "app" THEN AppAlive ELSE scriptRan
    /\ Len(copies) < MaxCopies
    /\ Commit(copyGiftLink(World, exec), Event("copyGiftLink", exec, FALSE))

\* the promise of clipboard.writeText settles
ClipboardSettle(id, ok, exec) ==
    /\ id \in 1..Len(copies)
    /\ copies[id].pc = "awaiting"
    /\ Commit(IF impl = "app" THEN AppClipboardSettle(World, id, ok)
              ELSE FlatClipboardSettle(World, id, ok, exec),
              Event("settle", IF ok THEN "resolved" ELSE "rejected", ok))

\* playback moves on
VideoAdvance ==
    /\ ~videoPaused
    /\ videoTime < MaxVideoTime
    /\ Commit([World EXCEPT !.time = @ + 1], Event("playback", "", FALSE))

\* the page is scrolled to offset s and the scroll event is dispatched
Scroll(s) ==
    /\ s \in ScrollOffsets
    /\ Commit(DispatchScroll([World EXCEPT !.offset = s]), Event("scroll", "", FALSE))

\* the window closed by a timer of no delay
TimeoutAtOnce ==
    /\ inThrottle
    /\ Commit([World EXCEPT !.inThrottle = FALSE], Event("timer", "throttle", FALSE))

\* a throttle with a trailing call: closing the window runs onScroll once more
TrailingTimeout ==
    /\ inThrottle
    /\ throttleTimer = 0
    /\ Commit(onScroll([World EXCEPT !.inThrottle = FALSE]),
              Event("timer", "throttle", FALSE))

\* the timer of the throttle fires
ThrottleTimeout ==
    /\ inThrottle
    /\ throttleTimer = 0
    /\ Commit([World EXCEPT !.inThrottle = FALSE], Event("timer", "throttle", FALSE))

\* a watcher reports one entry for an observed element
ReportCard(el, isIntersecting) ==
    /\ el \in revealObserved
    /\ reports[el] < MaxReports
    /\ LET w == [World EXCEPT !.reports[el] = @ + 1]
       IN  Commit(IF impl = "app" THEN AppRevealCallback(w, el, isIntersecting)
                  ELSE FlatRevealCallback(w, el, isIntersecting),
                  Event("report", el, isIntersecting))

ReportImage(img, isIntersecting) ==
    /\ img \in imgObserved
    /\ reports[img] < MaxReports
    /\ LET w == [World EXCEPT !.reports[img] = @ + 1]
       IN  Commit(IF impl = "app" THEN AppImageCallback(w, img, isIntersecting)
                  ELSE FlatImageCallback(w, img, isIntersecting),
                  Event("report", img, isIntersecting))

\* the toast's animation frame, dwell timer and exit timer
ToastFrame(i) ==
    /\ i \in 1..Len(toasts)
    /\ toasts[i].phase = "offscreen"
    /\ Commit([World EXCEPT !.toasts[i].phase = "onscreen"], Event("frame", "toast", FALSE))

\* the removal not delayed: the node is taken out as soon as the dwell ends
DwellEndRemoves(i) ==
    /\ i \in 1..Len(toasts)
    /\ toasts[i].phase = "onscreen"
    /\ toasts[i].timer = 0
    /\ Commit([World EXCEPT !.toasts[i].phase = "exiting", !.toasts[i].timer = 0],
              Event("timer", "dwell", FALSE))

ToastDwellEnd(i) ==
    /\ i \in 1..Len(toasts)
    /\ toasts[i].phase = "onscreen"
    /\ toasts[i].timer = 0
    /\ Commit([World EXCEPT !.toasts[i].phase = "exiting", !.toasts[i].timer = ToastExit],
              Event("timer", "dwell", FALSE))

ToastRemove(i) ==
    /\ i \in 1..Len(toasts)
    /\ toasts[i].phase = "exiting"
    /\ toasts[i].timer = 0
    /\ Commit([World EXCEPT !.toasts[i].phase = "removed"], Event("timer", "exit", FALSE))

\* ---- time
\* the timers that are pending, by the ms left on each
TimersLeft ==
    {toasts[i].timer : i \in {j \in 1..Len(toasts) : toasts[j].phase # "removed"}}
        \cup (IF inThrottle THEN {throttleTimer} ELSE {})

NextDue == CHOOSE m \in TimersLeft : \A x \in TimersLeft : m <= x

\* d ms pass and no callback runs: no pending timer comes due earlier, and an
\* animation frame that was requested runs before the timer set with it
Advance(d) ==
    /\ d > 0
    /\ \A x \in TimersLeft : d <= x
    /\ \A i \in 1..Len(toasts) : toasts[i].phase = "offscreen" => d < toasts[i].timer
    /\ Commit([World EXCEPT
                  !.toasts = [i \in 1..Len(toasts) |->
                                 IF toasts[i].phase = "removed" THEN toasts[i]
                                 ELSE [toasts[i] EXCEPT !.timer = @ - d, !.age = @ + d]],
                  !.throttleTimer = IF inThrottle THEN @ - d ELSE @,
                  !.windowAge = IF inThrottle THEN @ + d ELSE @],
              Event("time", "", FALSE))

\* time passes up to the next timer, or by one of the gaps
Tick(gaps) ==
    /\ TimersLeft # {}
    /\ \E d \in gaps \cup {NextDue} : Advance(d)

\* ------------------------------------------------------------ initial states
\* The page before its script runs, for a family of documents.
InitPage(modals, videos, clipboards, buttons, bars, heights, cardSets, imageSets) ==
    /\ impl \in Impls
    /\ hasModal \in modals
    /\ hasVideo \in videos
    /\ hasClipboard \in clipboards
    /\ hasScrollButton \in buttons
    /\ hasProgressBar \in bars
    /\ scrollHeight \in heights
    /\ docCards \in cardSets
    /\ docImages \in imageSets
    /\ readyState = "loading"
    /\ dclFired = FALSE
    /\ scriptRan = FALSE
    /\ parsed \in SUBSET (docCards \cup docImages)
    /\ listeners = {}
    /\ registrations = [s \in Subscriptions |-> 0]
    /\ readyRuns = 0
    /\ observer = FALSE
    /\ bodyLoaded = FALSE
    /\ modalDisplay = ""
    /\ videoPaused = TRUE
    /\ videoTime = 0
    /\ bodyOverflow = ""
    /\ lastCall = "none"
    /\ pageYOffset = 0
    /\ scrollButtonDisplay = ""
    /\ progressWidth = Unset
    /\ widthAssigned = Unset
    /\ inThrottle = FALSE
    /\ throttleTimer = 0
    /\ windowAge = 0
    /\ acceptedOffset = -1
    /\ revealObserved = {}
    /\ cardStyle = [c \in CardSet |-> NoStyle]
    /\ revealCount = [c \in CardSet |-> 0]
    /\ imgObserved = {}
    /\ imgSrc = [i \in ImageSet |-> ""]
    /\ imgClass = [i \in ImageSet |-> {"lazy"}]
    /\ loadCount = [i \in ImageSet |-> 0]
    /\ reports = [e \in CardSet \cup ImageSet |-> 0]
    /\ copies = <<>>
    /\ toasts = <<>>
    /\ tempFields = 0
    /\ clipboard = ""
    /\ event = Event("init", "", FALSE)
    /\ calls = <<>>
    /\ thrown = FALSE

ScrollHeights == {ViewportHeight * k : k \in 1..MaxPages}

Loading == RunScript \/ ParseEnd \/ DOMContentLoaded

\* ---- the video modal
ModalTargets ==
    {"body", "hero", "playBtn", "playIcon", "videoModal", "modalContent",
     "closeBtn", "heroVideo", "oddBtn", "text"}

InitModal ==
    InitPage(BOOLEAN, BOOLEAN, {TRUE}, {FALSE}, {FALSE}, {ViewportHeight},
             {{}, {"card1"}}, {{}})

ModalClick == \E n \in ModalTargets, ok \in BOOLEAN : Click(n, ok, "true")
ModalKeyDown == \E key \in Keys : KeyDown(key)
ModalCall == (\E ok \in BOOLEAN : CallPlayVideo(ok)) \/ CallCloseVideo

NextModal == Loading \/ ModalClick \/ ModalKeyDown \/ ModalCall \/ VideoAdvance

SpecModal == InitModal /\ [][NextModal]_vars

\* ---- scrolling
InitScroll ==
    InitPage({TRUE}, {TRUE}, {TRUE}, BOOLEAN, BOOLEAN, ScrollHeights, {{}}, {{}})

ScrollTo == \E s \in ScrollOffsets : Scroll(s)
ScrollClick == \E n \in {"topBtn", "text"} : Click(n, TRUE, "true")

ScrollTick == Tick({ScrollGap})

NextScroll == Loading \/ ScrollTo \/ ThrottleTimeout \/ ScrollClick \/ ScrollTick

SpecScroll == InitScroll /\ [][NextScroll]_vars

\* the scroll handlers in time: time passes and a timer that is due fires
InitThrottle ==
    InitPage({TRUE}, {TRUE}, {TRUE}, {TRUE}, {TRUE}, ScrollHeights, {{}}, {{}})

SpecThrottle ==
    InitThrottle /\ [][NextScroll]_vars /\ WF_vars(ThrottleTimeout \/ ScrollTick)

\* ---- watchers
InitWatch ==
    InitPage({TRUE}, {TRUE}, {TRUE}, {FALSE}, {FALSE}, {ViewportHeight},
             SUBSET CardSet, SUBSET ImageSet)

CardReport == \E el \in CardSet, isIntersecting \in BOOLEAN : ReportCard(el, isIntersecting)
ImageReport == \E img \in ImageSet, isIntersecting \in BOOLEAN : ReportImage(img, isIntersecting)

NextWatch == Loading \/ CardReport \/ ImageReport

SpecWatch == InitWatch /\ [][NextWatch]_vars

\* ---- sharing
ShareTargets ==
    {"shareTw", "shareFb", "shareLine", "shareCtor", "shareStr", "shareOther",
     "shareNone", "ctaBtn", "ctaLink", "oddBtn", "text"}
PlatformArgs == SharePlatforms \cup {"constructor", "toString", "myspace", "", Undefined}

InitShare ==
    InitPage({TRUE}, {TRUE}, {TRUE}, {FALSE}, {FALSE}, {ViewportHeight}, {{}}, {{}})

ShareClick == \E n \in ShareTargets : Click(n, TRUE, "true")
ShareCall == \E platform \in PlatformArgs : CallShareGift(platform)

NextShare == Loading \/ ShareClick \/ ShareCall

SpecShare == InitShare /\ [][NextShare]_vars

\* ---- clipboard and toasts
InitCopy ==
    InitPage({TRUE}, {TRUE}, BOOLEAN, {FALSE}, {FALSE}, {ViewportHeight}, {{}}, {{}})

CopyClick == \E exec \in ExecResults : Click("copyBtn", TRUE, exec)
CopyCall == \E exec \in ExecResults : CallCopyGiftLink(exec)
CopySettle ==
    \E id \in 1..MaxCopies, ok \in BOOLEAN, exec \in ExecResults : ClipboardSettle(id, ok, exec)
ToastStep == \E i \in 1..MaxCopies : ToastFrame(i) \/ ToastDwellEnd(i) \/ ToastRemove(i)

CopyTick == Tick({})

NextCopy == Loading \/ CopyClick \/ CopyCall \/ CopySettle \/ ToastStep \/ CopyTick

SpecCopy == InitCopy /\ [][NextCopy]_vars

\* ---- anchors, and the modal handlers on documents that lack an element
InitAnchor ==
    InitPage(BOOLEAN, BOOLEAN, {TRUE}, {FALSE}, {FALSE}, {ViewportHeight}, {{}}, {{}})

AnchorClick == \E n \in Anchors : Click(n, TRUE, "true")

NextAnchor == Loading \/ AnchorClick \/ ModalClick \/ ModalKeyDown

SpecAnchor == InitAnchor /\ [][NextAnchor]_vars

\* ---- toasts in time: no clipboard, so that each call shows its toast at once;
\* time passes and every callback that is due runs
InitToast ==
    InitPage({TRUE}, {TRUE}, {FALSE}, {FALSE}, {FALSE}, {ViewportHeight}, {{}}, {{}})

ToastCall == \E exec \in {"true", "throw"} : CallCopyGiftLink(exec)
ToastTick == Tick({ToastGap})

NextToast == Loading \/ ToastCall \/ ToastStep \/ ToastTick

SpecToast ==
    /\ InitToast
    /\ [][NextToast]_vars
    /\ WF_vars(ToastStep \/ ToastTick)

\* ---- the whole page
Init ==
    InitPage(BOOLEAN, BOOLEAN, BOOLEAN, BOOLEAN, BOOLEAN, ScrollHeights,
             SUBSET CardSet, SUBSET ImageSet)

Next ==
    \/ Loading
    \/ \E n \in Nodes, ok \in BOOLEAN, exec \in ExecResults : Click(n, ok, exec)
    \/ ModalKeyDown \/ ModalCall \/ VideoAdvance
    \/ ScrollTo \/ ThrottleTimeout
    \/ CardReport \/ ImageReport
    \/ ShareCall \/ CopyCall \/ CopySettle \/ ToastStep
    \/ Tick({ScrollGap, ToastGap})

Spec == Init /\ [][Next]_vars

\* ------------------------------------------------------------ claims: video modal
ModalOpen == modalDisplay = "block"
BothElements == hasModal /\ hasVideo
\* the click and keydown subscriptions of the loaded implementation are in place
Subscribed == IF impl = "app" THEN "click" \in listeners ELSE "windowclick" \in listeners

\* C1: with both modal elements in the document, after any sequence of
\* playVideo / closeVideo calls the modal is open iff the last call was playVideo
\* (so playVideo after playVideo leaves it open), and closeVideo on a closed
\* modal leaves it closed, the media paused at position 0, and changes nothing else.
C1_LastCallDecides ==
    /\ [](BothElements /\ lastCall # "none" => (ModalOpen <=> lastCall = "play"))
    /\ [][(BothElements /\ ~ModalOpen /\ event' = Event("call", "closeVideo", FALSE))
            => /\ ~ModalOpen'
               /\ videoPaused' /\ videoTime' = 0
               /\ UNCHANGED <<bodyOverflow, loadVars, scrollVars, watchVars, copyVars>>]_vars

\* playVideo was called on a modal that was already open and playing
C1_Witness ==
    /\ BothElements
    /\ event = Event("call", "playVideo", TRUE)
    /\ videoTime > 0
    /\ ModalOpen

\* C2: when the modal container or the media element is missing, playVideo and
\* closeVideo change nothing, start no playback and raise no error, in both
\* implementations.
C2_MissingMarkupSilent ==
    (~BothElements /\ event.kind \in {"call", "click", "keydown"})
        => /\ ~thrown
           /\ calls = <<>>
           /\ modalDisplay = "" /\ videoPaused /\ videoTime = 0 /\ bodyOverflow = ""

\* the modal's content: inside the container, under no data-action element
ModalContent == {n \in Nodes : InDocument(n) /\ n # "videoModal"
                     /\ Contains("videoModal", n) /\ closest(n) = NULL}

\* C3: with both elements present and the handlers subscribed, a click under a
\* play-video element opens the modal; a click under a close-video element, a
\* click on the container itself and an Escape keydown close it; a click on the
\* modal's content and any other key leave the modal as it was; and the modal
\* opens or closes in no step other than these triggers (or a call by name).
C3_Triggers ==
    [][LET e == event'
           click == e.kind = "click"
           key == e.kind = "keydown"
           act == IF click THEN DataAction(closest(e.what)) ELSE NoAttr
       IN  /\ (BothElements /\ Subscribed) =>
               /\ (click /\ impl = "app" /\ act = "play-video") => ModalOpen'
               /\ (click /\ impl = "app" /\ act = "close-video") => modalDisplay' = "none"
               /\ (click /\ e.what = "videoModal") => modalDisplay' = "none"
               /\ (key /\ impl = "app" /\ e.what = "Escape") => modalDisplay' = "none"
               /\ (click /\ e.what \in ModalContent) => UNCHANGED modalVars
               /\ (key /\ e.what # "Escape") => UNCHANGED modalVars
           /\ (ModalOpen' # ModalOpen) =>
               \/ e.kind = "call"
               \/ click /\ act \in {"play-video", "close-video"}
               \/ click /\ e.what = "videoModal"
               \/ key /\ e.what = "Escape"
      ]_vars

\* a click on the modal's content was handled and the modal stayed open
C3_Witness ==
    /\ BothElements /\ Subscribed
    /\ event.kind = "click" /\ event.what \in ModalContent
    /\ ModalOpen

\* ------------------------------------------------------------ claims: scrolling
\* the scroll event of the last step reached onScroll / the scroll listener
ProcessedTick ==
    /\ event'.kind = "scroll"
    /\ "scroll" \in listeners
    /\ impl = "app" => ~inThrottle

\* C4: on every processed scroll tick at offset s, the scroll-to-top control,
\* when the document has one, is shown iff s > 300 and hidden otherwise.
C4_ScrollButton ==
    [][(ProcessedTick /\ hasScrollButton)
         => /\ scrollButtonDisplay' \in {"block", "none"}
            /\ scrollButtonDisplay' = "block" <=> pageYOffset' > 300]_vars

\* a tick at offset 300 exactly was handled and the control is hidden
C4_Witness ==
    /\ event.kind = "scroll" /\ "scroll" \in listeners /\ hasScrollButton
    /\ pageYOffset = 300
    /\ scrollButtonDisplay = "none"

\* clamp(s / (H - V) * 100, 0, 100), and 0 when H = V
ExpectedWidth(s, H, V) ==
    IF H = V THEN Num(0, 1)
    ELSE IF s * 100 > 100 * (H - V) THEN Num(100, 1)
    ELSE IF s < 0 THEN Num(0, 1)
    ELSE Num(s * 100, H - V)

\* C5: on every processed scroll tick, updateProgressBar sets the width to
\* clamp(s/(H-V)*100, 0, 100) when H > V and to 0 when H = V; the value is a
\* number within [0, 100] and never the result of a division by zero.
C5_ProgressWidth ==
    [][(ProcessedTick /\ impl = "app" /\ hasProgressBar)
         => /\ widthAssigned'.kind = "num"
            /\ SameNumber(widthAssigned',
                          ExpectedWidth(pageYOffset', scrollHeight, ViewportHeight))
            /\ progressWidth' = widthAssigned']_vars

\* ------------------------------------------------------------ claims: watchers
\* C6: each reveal-animated element is triggered at most once: once the reveal
\* watcher has reported it intersecting it is no longer observed, and the reveal
\* effect is never applied to it again, in both implementations.
C6_RevealOnce ==
    \A c \in CardSet :
        /\ revealCount[c] <= 1
        /\ revealCount[c] >= 1 => c \notin revealObserved

\* C7: the first intersecting report of an observed image copies data-src into
\* src, removes 'lazy', adds 'loaded' and stops observing it, once per image; a
\* report that is not intersecting leaves the image unchanged and observed.
C7_LazyLoadOnce ==
    /\ [](\A i \in ImageSet :
            /\ loadCount[i] <= 1
            /\ loadCount[i] = 1 =>
                /\ imgSrc[i] = DataSrc(i)
                /\ "lazy" \notin imgClass[i]
                /\ "loaded" \in imgClass[i]
                /\ i \notin imgObserved)
    /\ [][\A i \in ImageSet :
            (event'.kind = "report" /\ event'.what = i /\ i \in imgObserved) =>
                IF event'.flag
                THEN loadCount'[i] = loadCount[i] + 1
                ELSE /\ imgSrc'[i] = imgSrc[i] /\ imgClass'[i] = imgClass[i]
                     /\ i \in imgObserved']_vars

\* ------------------------------------------------------------ claims: sharing
\* the platform argument of the shareGift call the last step made, if it made one
SharedPlatform ==
    IF event.kind = "shareGift" THEN event.what
    ELSE IF /\ event.kind = "click" /\ impl = "app" /\ "click" \in listeners
            /\ DataAction(closest(event.what)) = "share-gift"
    THEN DataPlatform(closest(event.what))
    ELSE NULL

\* C8: shareGift(platform) opens exactly one 600x400 popup on the platform's
\* share URL when platform is twitter, facebook or line, and opens no window and
\* does nothing else for every other argument.
C8_ShareGift ==
    SharedPlatform # NULL =>
        IF SharedPlatform \in {"twitter", "facebook", "line"}
        THEN calls = <<[op |-> "window.open", arg |-> ShareUrl(SharedPlatform),
                        width |-> 600, height |-> 400]>>
        ELSE calls = <<>>

\* the toasts a copyGiftLink call produced
ToastsOf(id, type) == {i \in 1..Len(toasts) : toasts[i].by = id /\ toasts[i].type = type}
Copied(c) == c.clip = "resolved" \/ c.fallback = "true"

\* C9: every finished copyGiftLink call has shown exactly one toast and thrown
\* nothing: one success toast and no error toast when the copy succeeded, one
\* error toast and no success toast when every attempted path failed.
C9_OneToast ==
    /\ event.kind \in {"copyGiftLink", "settle"} => ~thrown
    /\ \A id \in 1..Len(copies) :
        copies[id].pc = "done" =>
            IF Copied(copies[id])
            THEN Cardinality(ToastsOf(id, "success")) = 1 /\ ToastsOf(id, "error") = {}
            ELSE Cardinality(ToastsOf(id, "error")) = 1 /\ ToastsOf(id, "success") = {}

\* C10: copyGiftLink tries the clipboard capability first, runs the fallback
\* when the capability is missing and when its write is rejected, and shows an
\* error toast only after both paths have failed.
C10_FallbackAfterClipboard ==
    \A id \in 1..Len(copies) :
        LET c == copies[id]
        IN  /\ hasClipboard => c.clip # "none"
            /\ (c.pc = "done" /\ c.clip \in {"none", "rejected"}) => c.fallback # "none"
            /\ ToastsOf(id, "error") # {} =>
                   c.clip \in {"none", "rejected"} /\ c.fallback \in {"false", "throw"}

\* C11: the temporary text field of the fallback copy is scoped: when the
\* fallback has run to its end, whether the copy command succeeded, reported
\* failure or threw, the field is out of the document again; after any sequence
\* of copyGiftLink calls the document holds no temporary field.
C11_TempFieldScoped == tempFields = 0

\* a fallback copy whose copy command threw has run to its end
C11_Witness ==
    /\ "document.execCommand" \in Ops(calls)
    /\ \E id \in 1..Len(copies) : copies[id].pc = "done" /\ copies[id].fallback = "throw"
    /\ tempFields = 0

\* ------------------------------------------------------------ claims: toasts in time
ToastLife == ToastDwell + ToastExit

\* where toast i stands at its age
ToastOnTime(i) ==
    /\ toasts[i].phase \in {"offscreen", "onscreen"} =>
           toasts[i].age <= ToastDwell /\ toasts[i].timer = ToastDwell - toasts[i].age
    /\ toasts[i].phase = "exiting" =>
           /\ toasts[i].age >= ToastDwell
           /\ toasts[i].timer = ToastLife - toasts[i].age
    /\ toasts[i].phase = "removed" => toasts[i].age = ToastLife

\* the step from toasts[i] to its next value: forward by one phase at the
\* phase's deadline or not at all, and no other toast changes phase with it
ToastStepsInOrder(i) ==
    /\ Len(toasts') >= Len(toasts)
    /\ toasts'[i].type = toasts[i].type /\ toasts'[i].by = toasts[i].by
    /\ toasts[i].phase = "removed" => toasts'[i] = toasts[i]
    /\ toasts'[i].phase # toasts[i].phase =>
           /\ <<toasts[i].phase, toasts'[i].phase>> \in
                  {<<"offscreen", "onscreen">>, <<"onscreen", "exiting">>,
                   <<"exiting", "removed">>}
           /\ toasts'[i].phase = "exiting" => toasts[i].age = ToastDwell
           /\ toasts'[i].phase = "removed" => toasts[i].age = ToastLife
           /\ \A j \in 1..Len(toasts) : j # i => toasts'[j] = toasts[j]

\* a step adds at most one toast, new and with its own identity
OneNodePerCall ==
    /\ Len(toasts') <= Len(toasts) + 1
    /\ Len(toasts') = Len(toasts) + 1 =>
           /\ toasts'[Len(toasts')].age = 0
           /\ toasts'[Len(toasts')].phase \in {"offscreen", "onscreen"}
           /\ \A j \in 1..Len(toasts) : toasts[j].by # toasts'[Len(toasts')].by

\* C12: each showNotification call creates its own toast node, which goes
\* created -> on-screen -> off-screen at 3000 ms -> removed at 3300 ms after
\* its own call, independently of the other toasts: k overlapping calls give k
\* nodes, each removed once at its own deadline, and in the end the document
\* holds no toast.
C12_ToastLifecycle ==
    /\ [](\A i \in 1..Len(toasts) : ToastOnTime(i))
    /\ [][OneNodePerCall /\ \A i \in 1..Len(toasts) : ToastStepsInOrder(i)]_vars
    /\ <>[](\A i \in 1..Len(toasts) : toasts[i].phase = "removed")

\* two toasts overlapped: the first is gone at its deadline while the second,
\* shown later, is still in the document
C12_Witness ==
    /\ Len(toasts) >= 2
    /\ toasts[1].phase = "removed" /\ toasts[1].age = ToastLife
    /\ toasts[2].phase # "removed" /\ toasts[2].age > 0

\* ------------------------------------------------------------ claims: construction
\* the document-ready step of the controller is due: the document is parsed, and
\* DOMContentLoaded was dispatched or the constructor did not wait for it
ReadyDue ==
    readyState # "loading" /\ (dclFired \/ registrations["DOMContentLoaded"] = 0)

\* C13: constructing the controller registers each subscription (load,
\* throttled scroll, document click, window click, keydown) exactly once and
\* runs the document-ready step (smooth-scroll wiring, reveal setup over every
\* card, body marked 'loaded') exactly once, whether the document is loading or
\* already parsed at construction; the reveal watcher exists before any element
\* is registered with it.
C13_ConstructedOnce ==
    (impl = "app" /\ scriptRan) =>
        /\ \A s \in AppSubscriptions : registrations[s] = 1
        /\ readyRuns <= 1
        /\ ReadyDue =>
               /\ readyRuns = 1
               /\ registrations["anchor"] = 1
               /\ bodyLoaded
               /\ \A c \in docCards : c \in revealObserved \/ revealCount[c] > 0
        /\ revealObserved # {} => observer
        /\ event.kind = "script" => ~thrown

\* ------------------------------------------------------------ claims: errors
\* C14: no event handler lets an error escape: the delegated click, backdrop
\* click, keydown, anchor click and document-ready handlers return normally in
\* every document state, with the modal or media element missing, with an
\* anchor whose href names no element or is just '#', with a rejected play.
C14_NoHandlerThrows ==
    event.kind \in {"click", "keydown", "DOMContentLoaded"} => ~thrown

\* ------------------------------------------------------------ claims: lazy images
\* C15: every image with a deferred source in the parsed document is
\* registered with the lazy-image watcher, whether the controller was
\* constructed while the document was loading or after it was parsed (so that
\* each one reported intersecting gets its source).
C15_EveryImageWatched ==
    (impl = "app" /\ scriptRan /\ readyState # "loading") =>
        \A i \in docImages : i \in imgObserved \/ imgSrc[i] = DataSrc(i)

\* ------------------------------------------------------------ claims: throttle
\* a scroll event reaches the throttled handler of the controller
ThrottledTick == event'.kind = "scroll" /\ impl = "app" /\ "scroll" \in listeners

\* C16: the throttled scroll handler runs onScroll at most once per 16 ms
\* window whatever the rate of scroll events: the first event outside a window
\* runs it at once and opens a window, every event inside the window runs
\* nothing, and the window always closes 16 ms after it opened, so scroll
\* handling is never blocked for good.
C16_Throttle ==
    /\ [](inThrottle => throttleTimer = ThrottleLimit - windowAge /\ throttleTimer >= 0)
    /\ [][/\ (ThrottledTick /\ ~inThrottle) =>
                /\ acceptedOffset' = pageYOffset'
                /\ inThrottle' /\ windowAge' = 0
                /\ acceptedOffset # -1 => windowAge = ThrottleLimit
          /\ (ThrottledTick /\ inThrottle) =>
                UNCHANGED <<scrollButtonDisplay, progressWidth, widthAssigned,
                            acceptedOffset, inThrottle, throttleTimer, windowAge>>
          /\ (inThrottle /\ ~inThrottle') => windowAge = ThrottleLimit]_vars
    /\ inThrottle ~> ~inThrottle

\* a scroll event arrived inside an open window and ran nothing
C16_Witness ==
    /\ event.kind = "scroll" /\ impl = "app" /\ "scroll" \in listeners
    /\ inThrottle /\ windowAge > 0
    /\ pageYOffset # acceptedOffset

\* ------------------------------------------------------------ claims: scroll lock
\* the last step was a playVideo of the controller whose playback did not start
FailedPlay ==
    \/ event = Event("call", "playVideo", FALSE)
    \/ /\ event.kind = "click" /\ ~event.flag /\ "click" \in listeners
       /\ DataAction(closest(event.what)) = "play-video"

\* C17: in the controller, with both modal elements present, page scrolling is
\* suppressed exactly while the modal is open: after any sequence of play,
\* close, backdrop-click and Escape events body overflow is 'hidden' iff the
\* modal container is displayed; after a close the media is paused at position
\* 0; a failed playback start still leaves the modal open with scrolling
\* suppressed.
C17_ScrollLock ==
    (impl = "app" /\ BothElements) =>
        /\ bodyOverflow = "hidden" <=> ModalOpen
        /\ lastCall = "close" => ~ModalOpen /\ videoPaused /\ videoTime = 0
        /\ FailedPlay => ModalOpen /\ bodyOverflow = "hidden"

\* the modal was opened by a click although its playback was rejected
C17_Witness ==
    /\ impl = "app" /\ BothElements
    /\ event = Event("click", "playIcon", FALSE) /\ "click" \in listeners
    /\ "console.warn" \in Ops(calls)
    /\ ModalOpen /\ videoPaused /\ bodyOverflow = "hidden"

\* ------------------------------------------------------------ claims: unknown actions
\* the click targets handleClicks has no case for
Unrecognized ==
    {n \in Nodes : InDocument(n)
                     /\ (closest(n) = NULL \/ DataAction(closest(n)) \notin KnownActions)}

\* C18: unrecognized identifiers are ignored without any effect: handleClicks
\* on a click with no data-action ancestor, or whose data-action is none of
\* play-video, close-video, scroll-to-top, share-gift, copy-gift-link,
\* track-cta, leaves the modal, page scrolling, toasts, popups, clipboard and
\* log as they were.
C18_UnknownIgnored ==
    \A n \in Unrecognized, ok \in BOOLEAN, exec \in ExecResults :
        handleClicks(World, n, ok, exec) = World

\* the controller handled a click on an element with an unknown data-action
\* while the modal was open
C18_Witness ==
    /\ impl = "app" /\ "click" \in listeners
    /\ event = Event("click", "oddBtn", TRUE)
    /\ "oddBtn" \in Unrecognized
    /\ ModalOpen /\ bodyOverflow = "hidden" /\ calls = <<>>

\* ------------------------------------------------------------ claims: no trailing call
\* C19: the throttle has no trailing call: a scroll event arriving inside an
\* open 16 ms window causes no update, neither at once nor when the window
\* closes; in every reachable state the scroll-to-top visibility and the
\* progress width are the values computed from the offset at the most recently
\* accepted scroll event, not necessarily from the current offset.
C19_NoTrailingCall ==
    /\ [](impl = "app" =>
            IF acceptedOffset = -1
            THEN scrollButtonDisplay = "" /\ widthAssigned = Unset
            ELSE LET w == onScroll([World EXCEPT !.offset = acceptedOffset])
                 IN  /\ scrollButtonDisplay = w.button
                     /\ widthAssigned = w.assigned
                     /\ progressWidth = w.width
                     /\ hasScrollButton =>
                            (scrollButtonDisplay = "block" <=> acceptedOffset > ScrollThreshold))
    /\ [][((ThrottledTick /\ inThrottle) \/ event'.kind = "timer") =>
              UNCHANGED <<scrollButtonDisplay, progressWidth, widthAssigned,
                          acceptedOffset>>]_vars

\* the window has closed after an event inside it carried the page past the
\* threshold, and the control is still hidden
C19_Witness ==
    /\ impl = "app" /\ hasScrollButton
    /\ event = Event("timer", "throttle", FALSE)
    /\ acceptedOffset >= 0 /\ acceptedOffset <= ScrollThreshold
    /\ pageYOffset > ScrollThreshold
    /\ scrollButtonDisplay = "none"

\* ------------------------------------------------------------ claims: hidden cards
\* C20: no card is left hidden without a way back: every element the reveal
\* setup makes transparent and offset, with its transition, is registered with
\* the reveal watcher in the same setup step; so in every reachable state an
\* element with opacity 0 is observed, and it becomes opaque with zero offset
\* the first time it is reported intersecting.
C20_HiddenIsWatched ==
    /\ [](\A c \in CardSet :
            cardStyle[c].opacity = "0" => cardStyle[c] = Hidden /\ c \in revealObserved)
    /\ [][\A c \in CardSet :
            (event' = Event("report", c, TRUE) /\ cardStyle[c].opacity = "0") =>
                /\ cardStyle'[c].opacity = "1"
                /\ cardStyle'[c].transform = "translateY(0)"]_vars

====
